---- MODULE Spec2Model ----
(***************************************************************************)
(* Verification model of the CortexEngine asset scripts:                   *)
(*   convert_exr.py          texture batch converter (Spec)                *)
(*   smart_convert.py        precision fixer, preserve-I/O mode (SpecSmart)*)
(*   repair_and_convert.py, transplant_metadata.py                         *)
(*                           repairing fixers (SpecRepair)                 *)
(* and of the clamp/quantize arithmetic of convert_exr.py (SpecQuant).     *)
(*                                                                         *)
(* A file name is a sequence of tokens (its words, then its extension), so *)
(* that "substring in name" is "token occurs in sequence" and lower() is   *)
(* applied token by token.  A path is a record [dir, stem, ext].           *)
(***************************************************************************)
EXTENDS Integers, Sequences, FiniteSets, TLC

\* ------------------------------------------------------------------ bounds
\* Longest directory listing handed to the batch converter.
MaxFiles == 2
\* Samples of an image are the multiples of 1/Den in [-1, 2].
Den == 8
\* Most samples in an image.
MaxPixels == 2
\* Most output descriptors of a graph.
MaxOutputs == 2

\* ------------------------------------------- convert_exr.py: configuration
INPUT_DIR == "assets/polyhaven/textures"
OUTPUT_DIR == "assets/textures/rtshowcase"
TEXCONV_PATH == "./texconv.exe"
MAX_HERO_RES == 2048
MAX_PROP_RES == 1024

\* temp_tiff = "temp_normal.tif" (relative to the working directory).
temp_tiff == [dir |-> ".", stem |-> <<"temp_normal">>, ext |-> ".tif"]

\* ------------------------------------------------ file names and listings
\* Names a directory listing may hold: one per category, one unclassified
\* (with upper-case letters), one holding two category substrings, and two
\* the selection skips.
Names ==
    { <<"wood_shutter", "_nor_", ".exr">>,
      <<"castle_brick", "_nor_", ".exr">>,
      <<"Grey_Plaster", "_nor_", ".EXR">>,
      <<"metal_plate", "_nor_", ".exr">>,
      <<"rock", "_nor_", ".exr">>,
      <<"metal_plate", "wood_shutter", "_nor_", ".exr">>,
      <<"metal_plate", "_diff_", ".exr">>,
      <<"castle_brick", "_nor_", ".png">> }

\* str.lower(), token by token.
Lower(tok) ==
    CASE tok = "Grey_Plaster" -> "grey_plaster"
      [] tok = ".EXR" -> ".exr"
      [] OTHER -> tok

LowerName(f) == [i \in 1..Len(f) |-> Lower(f[i])]

\* "sub in f"
Contains(f, sub) == \E i \in 1..Len(f) : f[i] = sub

\* f.endswith(suf)
EndsWith(f, suf) == Len(f) > 0 /\ f[Len(f)] = suf

\* The filter of the list comprehension that builds `files`.
Selected(f) == EndsWith(LowerName(f), ".exr") /\ Contains(f, "_nor_")

\* os.listdir(INPUT_DIR): any sequence of distinct names, in any order.
Listings ==
    { s \in UNION { [1..n -> Names] : n \in 0..MaxFiles } :
        \A i, j \in 1..Len(s) : i # j => s[i] # s[j] }

\* ------------------------------------------------------------ target names
Floor == <<"rt", "gallery", "floor", "normal", "bc5">>
LeftWall == <<"rt", "gallery", "leftwall", "normal", "bc5">>
RightWall == <<"rt", "gallery", "rightwall", "normal", "bc5">>
Cylinder == <<"rt", "gallery", "cylinder", "brushed", "normal", "bc5">>
Cube == <<"rt", "gallery", "cube", "plastic", "normal", "bc5">>
Unknown == <<"unknown", "normal">>

AllTargets == {Floor, LeftWall, RightWall, Cylinder, Cube, Unknown}

\* Mutant of TargetsOf: the metal_plate test made first in the chain.
TargetsOf_MetalFirst(filename) ==
    LET lower_name == LowerName(filename)
    IN  IF Contains(lower_name, "metal_plate") THEN <<Cylinder, Cube>>
        ELSE IF Contains(lower_name, "wood_shutter") THEN <<Floor>>
        ELSE IF Contains(lower_name, "castle_brick") THEN <<LeftWall>>
        ELSE IF Contains(lower_name, "grey_plaster") THEN <<RightWall>>
        ELSE <<Unknown>>

\* Step 4 of the loop body: the if/elif chain and the choice of `targets`.
TargetsOf(filename) ==
    LET lower_name == LowerName(filename)
        output_name ==
            IF Contains(lower_name, "wood_shutter") THEN Floor
            ELSE IF Contains(lower_name, "castle_brick") THEN LeftWall
            ELSE IF Contains(lower_name, "grey_plaster") THEN RightWall
            ELSE Unknown
        output_names ==
            IF /\ ~Contains(lower_name, "wood_shutter")
               /\ ~Contains(lower_name, "castle_brick")
               /\ ~Contains(lower_name, "grey_plaster")
               /\ Contains(lower_name, "metal_plate")
            THEN <<Cylinder, Cube>>
            ELSE <<>>
    IN  IF output_names # <<>> THEN output_names ELSE <<output_name>>

\* Mutant of MaxRes: the right wall left out of the hero tuple.
MaxRes_NoRightWall(target) ==
    IF target \in {Floor, LeftWall} THEN MAX_HERO_RES ELSE MAX_PROP_RES

\* The resolution cap chosen for a target.
MaxRes(target) ==
    IF target \in {Floor, LeftWall, RightWall} THEN MAX_HERO_RES ELSE MAX_PROP_RES

\* The texconv command line.
Cmd(target) ==
    [ exe |-> TEXCONV_PATH, f |-> "BC5_UNORM", y |-> TRUE,
      w |-> MaxRes(target), h |-> MaxRes(target),
      o |-> OUTPUT_DIR, input |-> temp_tiff ]

NoCmd ==
    [ exe |-> "", f |-> "", y |-> FALSE, w |-> 0, h |-> 0,
      o |-> "", input |-> temp_tiff ]

\* ------------------------------------------------------------- file system
final_dds(target) == [dir |-> OUTPUT_DIR, stem |-> target, ext |-> ".dds"]

generated_dds == [dir |-> OUTPUT_DIR, stem |-> <<"temp_normal">>, ext |-> ".dds"]

\* stem = os.path.splitext(os.path.basename(temp_tiff))[0]
alt_dds == [dir |-> OUTPUT_DIR, stem |-> temp_tiff.stem, ext |-> ".dds"]

\* texconv writes <output dir>/<input stem>.dds.
ToolOutput(c) == [dir |-> c.o, stem |-> c.input.stem, ext |-> ".dds"]

Paths == {temp_tiff, generated_dds, alt_dds} \cup { final_dds(t) : t \in AllTargets }

Absent == [kind |-> "absent"]

\* The intermediate file written for the src-th selected file (0: left by an
\* earlier run).
Tif(src) == [kind |-> "tif", src |-> src]

\* A texconv output: compressed from intermediate `src`, at cap `res`, by the
\* run made for target number `t` of selected file number `file`
\* (file = 0: left by an earlier run; res = -1: a final DDS of an earlier run).
Dds(src, res, file, t) ==
    [kind |-> "dds", src |-> src, res |-> res, file |-> file, tgt |-> t]

Exists(f, p) == f[p] # Absent

\* os.remove(p) guarded by os.path.exists(p)
RemoveIfExists(f, p) == [f EXCEPT ![p] = Absent]

\* Mutant of Rename: a copy, which leaves the source in place.
Rename_Copies(f, a, b) == [f EXCEPT ![b] = f[a]]

\* os.rename(a, b), b absent
Rename(f, a, b) == [f EXCEPT ![b] = f[a], ![a] = Absent]

VARIABLES
    pc,              \* position in convert_exr_normals
    inputDirExists,  \* os.path.isdir(INPUT_DIR)
    listing,         \* os.listdir(INPUT_DIR)
    files,           \* the selected files
    idx,             \* position of `filename` in files
    targets,         \* targets of the current file
    tgt,             \* position of `target` in targets
    fs,              \* content of every path the script touches
    fs0,             \* fs when the script started
    cmd,             \* last command line run
    result,          \* its return code (-1: none yet)
    attempted,       \* files for which "Processing:" was printed
    log              \* last line printed, "Processing:" lines aside

\* convert_exr.py, steps 2 and 3 of the loop body on one image
VARIABLES
    qpc,             \* position in the steps
    img,             \* the image: numerators of its samples over 2 * Den
    pre,             \* the image after the optional signed remap
    shifted,         \* img_min < 0.0
    img_16bit        \* the quantized image

\* smart_convert.py
VARIABLES
    spc,             \* position in the script
    model,           \* the loaded graph
    model_fp16,      \* the converter's result
    sdisk,           \* the model files on disk
    sdisk0           \* sdisk when the script started

\* repair_and_convert.py and transplant_metadata.py
VARIABLES
    script,          \* which of the two runs
    rpc,             \* position in the script
    orig,            \* the original graph, as loaded and never touched
    original_outputs,\* the output descriptors captured from it
    half,            \* the half-precision graph before the repair
    rmodel_fp16,     \* the half-precision graph being repaired
    rdisk            \* the half-precision model file on disk

texVars ==
    << pc, inputDirExists, listing, files, idx, targets, tgt, fs, fs0, cmd,
       result, attempted, log >>

quantVars == << qpc, img, pre, shifted, img_16bit >>

smartVars == << spc, model, model_fp16, sdisk, sdisk0 >>

repairVars == << script, rpc, orig, original_outputs, half, rmodel_fp16, rdisk >>

vars == << texVars, quantVars, smartVars, repairVars >>

\* What each script leaves alone: the state of the others.
offTex == << quantVars, smartVars, repairVars >>

offQuant == << texVars, smartVars, repairVars >>

offSmart == << texVars, quantVars, repairVars >>

offRepair == << texVars, quantVars, smartVars >>

\* A script that is not running.
QuantIdle ==
    /\ qpc = "off"
    /\ img = <<>>
    /\ pre = <<>>
    /\ shifted = FALSE
    /\ img_16bit = <<>>

SmartIdle ==
    /\ spc = "off"
    /\ model = <<>>
    /\ model_fp16 = <<>>
    /\ sdisk = <<>>
    /\ sdisk0 = <<>>

RepairIdle ==
    /\ script = "off"
    /\ rpc = "off"
    /\ orig = <<>>
    /\ original_outputs = <<>>
    /\ half = <<>>
    /\ rmodel_fp16 = <<>>
    /\ rdisk = <<>>

Init ==
    /\ QuantIdle
    /\ SmartIdle
    /\ RepairIdle
    /\ pc = "start"
    /\ inputDirExists \in BOOLEAN
    /\ listing \in Listings
    /\ inputDirExists = FALSE => listing = <<>>
    /\ files = <<>>
    /\ idx = 0
    /\ targets = <<>>
    /\ tgt = 0
    /\ \E tp, gp, fp \in BOOLEAN :
          fs = [ p \in Paths |->
                   IF p = temp_tiff THEN (IF tp THEN Tif(0) ELSE Absent)
                   ELSE IF p = generated_dds
                        THEN (IF gp THEN Dds(0, 0, 0, 0) ELSE Absent)
                   ELSE (IF fp THEN Dds(0, -1, 0, 0) ELSE Absent) ]
    /\ fs0 = fs
    /\ cmd = NoCmd
    /\ result = -1
    /\ attempted = <<>>
    /\ log = ""

\* convert_exr.py not running.
TexIdle ==
    /\ pc = "off"
    /\ inputDirExists = FALSE
    /\ listing = <<>>
    /\ files = <<>>
    /\ idx = 0
    /\ targets = <<>>
    /\ tgt = 0
    /\ fs = <<>>
    /\ fs0 = <<>>
    /\ cmd = NoCmd
    /\ result = -1
    /\ attempted = <<>>
    /\ log = ""

\* if not os.path.isdir(INPUT_DIR): print; return
ErrorNoInputDir ==
    /\ pc = "start"
    /\ ~inputDirExists
    /\ pc' = "done"
    /\ log' = "[ERROR] INPUT_DIR does not exist"
    /\ UNCHANGED offTex
    /\ UNCHANGED << inputDirExists, listing, files, idx, targets, tgt, fs, fs0,
                    cmd, result, attempted >>

\* if not files: print; return
NoFilesFound ==
    /\ pc = "start"
    /\ inputDirExists
    /\ SelectSeq(listing, Selected) = <<>>
    /\ pc' = "done"
    /\ log' = "No EXR normal maps found"
    /\ UNCHANGED offTex
    /\ UNCHANGED << inputDirExists, listing, files, idx, targets, tgt, fs, fs0,
                    cmd, result, attempted >>

\* The list comprehension, then entry into the loop with the first file.
BeginBatch ==
    /\ pc = "start"
    /\ inputDirExists
    /\ SelectSeq(listing, Selected) # <<>>
    /\ files' = SelectSeq(listing, Selected)
    /\ idx' = 1
    /\ attempted' = <<files'[1]>>
    /\ pc' = "file"
    /\ UNCHANGED offTex
    /\ UNCHANGED << inputDirExists, listing, targets, tgt, fs, fs0, cmd, result,
                    log >>

\* `continue` of the outer loop, or its normal end: the next file, or the
\* cleanup after the last one.
NextFile ==
    IF idx < Len(files)
    THEN /\ idx' = idx + 1
         /\ attempted' = Append(attempted, files[idx + 1])
         /\ pc' = "file"
    ELSE /\ idx' = idx
         /\ attempted' = attempted
         /\ pc' = "cleanup"

\* End of one pass of the inner loop: the next target, or the next file.
NextTarget ==
    IF tgt < Len(targets)
    THEN /\ tgt' = tgt + 1
         /\ pc' = "texconv"
         /\ UNCHANGED << idx, attempted >>
    ELSE /\ tgt' = tgt
         /\ NextFile

\* Mutant of ReadFailed: `break` in place of `continue`.
ReadFailed_Breaks ==
    /\ pc = "file"
    /\ log' = "[ERROR] Could not read"
    /\ pc' = "cleanup"
    /\ UNCHANGED offTex
    /\ UNCHANGED << inputDirExists, listing, files, idx, targets, tgt, fs, fs0,
                    cmd, result, attempted >>

\* img is None: print the error and continue.
ReadFailed ==
    /\ pc = "file"
    /\ log' = "[ERROR] Could not read"
    /\ NextFile
    /\ UNCHANGED offTex
    /\ UNCHANGED << inputDirExists, listing, files, targets, tgt, fs, fs0, cmd,
                    result >>

\* The image was read: remap, clamp, quantize, cv2.imwrite(temp_tiff) (whose
\* result is not looked at: it may have written nothing), then classify.
ReadAndWrite ==
    /\ pc = "file"
    /\ \E written \in BOOLEAN :
          fs' = IF written THEN [fs EXCEPT ![temp_tiff] = Tif(idx)] ELSE fs
    /\ targets' = TargetsOf(files[idx])
    /\ tgt' = 1
    /\ pc' = "texconv"
    /\ UNCHANGED offTex
    /\ UNCHANGED << inputDirExists, listing, files, idx, fs0, cmd, result,
                    attempted, log >>

\* subprocess.run(cmd): the tool returns any code, and may or may not have
\* written its output (only from an input that exists).
RunTexconv ==
    /\ pc = "texconv"
    /\ cmd' = Cmd(targets[tgt])
    /\ \E rc \in {0, 1}, out \in BOOLEAN :
          /\ out => Exists(fs, cmd'.input)
          /\ result' = rc
          /\ fs' = IF out
                   THEN [fs EXCEPT ![ToolOutput(cmd')] =
                            Dds(fs[cmd'.input].src, cmd'.w, idx, tgt)]
                   ELSE fs
    /\ pc' = "ran"
    /\ UNCHANGED offTex
    /\ UNCHANGED << inputDirExists, listing, files, idx, targets, tgt, fs0,
                    attempted, log >>

\* result.returncode != 0: print the error and continue with the next target.
TexconvFailed ==
    /\ pc = "ran"
    /\ result # 0
    /\ log' = "[ERROR] texconv failed"
    /\ NextTarget
    /\ UNCHANGED offTex
    /\ UNCHANGED << inputDirExists, listing, files, targets, fs, fs0, cmd, result >>

\* result.returncode == 0: find the tool's output and move it to final_dds.
LocateAndMove ==
    /\ pc = "ran"
    /\ result = 0
    /\ LET final == final_dds(targets[tgt])
       IN  IF Exists(fs, generated_dds)
           THEN /\ fs' = Rename(RemoveIfExists(fs, final), generated_dds, final)
                /\ log' = "-> Generated"
           ELSE IF Exists(fs, alt_dds)
           THEN /\ fs' = Rename(RemoveIfExists(fs, final), alt_dds, final)
                /\ log' = "-> Generated (alt)"
           ELSE /\ fs' = fs
                /\ log' = "[WARN] Expected DDS not found"
    /\ NextTarget
    /\ UNCHANGED offTex
    /\ UNCHANGED << inputDirExists, listing, files, targets, fs0, cmd, result >>

\* Mutant of Cleanup: the removal forgotten.
Cleanup_KeepsTemp ==
    /\ pc = "cleanup"
    /\ pc' = "done"
    /\ log' = "Done."
    /\ UNCHANGED offTex
    /\ UNCHANGED << inputDirExists, listing, files, idx, targets, tgt, fs, fs0,
                    cmd, result, attempted >>

\* After the loop: remove the temporary file if it exists, print "Done.".
Cleanup ==
    /\ pc = "cleanup"
    /\ fs' = IF Exists(fs, temp_tiff) THEN RemoveIfExists(fs, temp_tiff) ELSE fs
    /\ pc' = "done"
    /\ log' = "Done."
    /\ UNCHANGED offTex
    /\ UNCHANGED << inputDirExists, listing, files, idx, targets, tgt, fs0, cmd,
                    result, attempted >>

Next ==
    \/ ErrorNoInputDir
    \/ NoFilesFound
    \/ BeginBatch
    \/ ReadFailed
    \/ ReadAndWrite
    \/ RunTexconv
    \/ TexconvFailed
    \/ LocateAndMove
    \/ Cleanup

Spec == Init /\ [][Next]_vars

\* ======================================================== convert_exr claims
\* The current file name, while its targets are being processed.
filename == files[idx]

InTargets == pc \in {"texconv", "ran"}

\* The run returned before the loop (no input directory, or nothing selected).
ReturnedEarly ==
    /\ pc = "done"
    /\ log \in {"[ERROR] INPUT_DIR does not exist", "No EXR normal maps found"}

\* target matches *_word_*
MatchesInfix(target, word) == \E i \in 2..(Len(target) - 1) : target[i] = word

\* C1 as stated: every name containing "metal_plate" yields exactly the two
\* metal-plate targets, and every name containing "wood_shutter",
\* "castle_brick" or "grey_plaster" yields exactly one target, also when the
\* name contains more than one of the four substrings.
C1_AsStated ==
    InTargets =>
        /\ Contains(filename, "metal_plate") => targets = <<Cylinder, Cube>>
        /\ (\/ Contains(filename, "wood_shutter")
            \/ Contains(filename, "castle_brick")
            \/ Contains(filename, "grey_plaster")) => Len(targets) = 1

\* C1 amended: a name that contains (case-insensitively) "metal_plate" and
\* none of "wood_shutter", "castle_brick", "grey_plaster" yields exactly the
\* two metal-plate targets; a name that contains one of those three yields
\* exactly one target (the first of floor, left wall, right wall whose
\* substring it contains), whether or not it also contains "metal_plate".
C1_FirstMatchWins ==
    InTargets =>
        LET n == LowerName(filename)
            hero == { s \in {"wood_shutter", "castle_brick", "grey_plaster"} :
                        Contains(n, s) }
        IN  /\ (Contains(n, "metal_plate") /\ hero = {})
                  => targets = <<Cylinder, Cube>>
            /\ hero # {} =>
                  /\ Len(targets) = 1
                  /\ targets[1] \in {Floor, LeftWall, RightWall}
                  /\ targets[1] = Floor <=> "wood_shutter" \in hero
                  /\ targets[1] = RightWall <=> hero = {"grey_plaster"}

\* A name with two category substrings is being processed, with one target.
C1_Witness ==
    /\ InTargets
    /\ Contains(filename, "metal_plate")
    /\ Contains(filename, "wood_shutter")
    /\ targets = <<Floor>>

\* C2: per-file failures never stop the batch: the run is never stuck before
\* "done", the files attempted are always a prefix of the selected files in
\* their order, and a run that entered the loop ends with every selected
\* file attempted and "Done." printed.
C2_BatchNeverStops ==
    /\ pc \in {"start", "file", "texconv", "ran", "cleanup", "done"}
    /\ pc # "done" => ENABLED Next
    /\ Len(attempted) <= Len(files)
    /\ attempted = SubSeq(files, 1, Len(attempted))
    /\ pc \in {"file", "texconv", "ran"} => Len(attempted) = idx
    /\ (pc = "cleanup" \/ (pc = "done" /\ ~ReturnedEarly)) =>
          /\ attempted = files
          /\ files = SelectSeq(listing, Selected)
    /\ (pc = "done" /\ ~ReturnedEarly) => log = "Done."

\* The second file is attempted right after the first one could not be read.
C2_Witness ==
    /\ pc = "file"
    /\ idx = 2
    /\ log = "[ERROR] Could not read"
    /\ Len(attempted) = 2

\* C7: every compressor invocation uses cap 2048 for a target matching
\* *_floor_*, *_leftwall_* or *_rightwall_* and cap 1024 for every other
\* target, the same cap for width and height, and format BC5.
C7_ResolutionCap ==
    pc = "ran" =>
        LET target == targets[tgt]
            hero == \/ MatchesInfix(target, "floor")
                    \/ MatchesInfix(target, "leftwall")
                    \/ MatchesInfix(target, "rightwall")
        IN  /\ cmd.w = (IF hero THEN 2048 ELSE 1024)
            /\ cmd.h = cmd.w
            /\ cmd.f = "BC5_UNORM"
            /\ target \in {Cylinder, Cube, Unknown} => cmd.w = 1024
            /\ target \in AllTargets

\* The compressor has run for the fallback target of an unclassified file.
C7_Witness ==
    /\ pc = "ran"
    /\ targets[tgt] = Unknown
    /\ cmd.w = 1024
    /\ cmd.h = 1024

\* C8: in the step that handles a compressor result: on exit code 0 the
\* tool's output under the expected name (else under the alternate name)
\* becomes the content of the final path and no longer exists under its own
\* name; if neither exists, or the exit code is not 0, the final path is left
\* as it was; no other path changes.
C8_MoveStep ==
    pc = "ran" =>
        LET final == final_dds(targets[tgt])
            found == IF Exists(fs, generated_dds) THEN {generated_dds}
                     ELSE IF Exists(fs, alt_dds) THEN {alt_dds}
                     ELSE {}
        IN  /\ (result = 0 /\ found # {}) =>
                  \A g \in found :
                      /\ fs'[final] = fs[g]
                      /\ ~Exists(fs', g)
                      /\ \A p \in Paths \ {final, g} : fs'[p] = fs[p]
            /\ (result # 0 \/ found = {}) => fs' = fs

\* C8: every step of the run satisfies the move-or-leave relation above.
C8_MoveOrLeave == [][C8_MoveStep]_vars

\* A tool output made in this run has replaced a final file of an earlier run.
C8_Witness ==
    /\ log = "-> Generated"
    /\ fs0[final_dds(Floor)] = Dds(0, -1, 0, 0)
    /\ fs[final_dds(Floor)].file = 1
    /\ ~Exists(fs, generated_dds)

\* C9: no step before the cleanup deletes the temporary file; the cleanup
\* step deletes it if it exists; a run that entered the loop returns with the
\* temporary file absent, and a run that returned early leaves every file as
\* it was.
C9_Step ==
    /\ (pc # "cleanup" /\ Exists(fs, temp_tiff)) => Exists(fs', temp_tiff)
    /\ pc = "cleanup" => (pc' = "done" /\ ~Exists(fs', temp_tiff))
    /\ pc' = "done" =>
          IF ReturnedEarly' THEN fs' = fs0' ELSE ~Exists(fs', temp_tiff)

\* C9: every step of the run satisfies the temporary-file relation above.
C9_TempDeletedOnceAtEnd == [][C9_Step]_vars

\* A two-file run wrote the temporary file for its second file, compressed
\* it, and returned with the temporary file gone.
C9_Witness ==
    /\ pc = "done"
    /\ log = "Done."
    /\ Len(files) = 2
    /\ ~Exists(fs, temp_tiff)
    /\ \E t \in AllTargets :
          /\ fs[final_dds(t)].kind = "dds"
          /\ fs[final_dds(t)].src = 2

\* C10 as stated: whatever is moved to a final path while file number idx is
\* processed was produced by this target's compressor run from the
\* intermediate file written for file number idx.
C10_ProvenanceStep ==
    LET final == final_dds(targets[tgt])
    IN  (pc = "ran" /\ fs'[final] # fs[final]) =>
            fs'[final] = Dds(idx, cmd.w, idx, tgt)

\* C10 as stated: every step of the run satisfies the provenance relation
\* above.
C10_Provenance == [][C10_ProvenanceStep]_vars

\* ================================= convert_exr.py: remap, clamp, quantize
\* A sample x is kept as the integer numerator x * Unit.
Unit == 2 * Den

\* Largest 16-bit value, the scale of step 2.
U16_SCALE == 65535

Images == UNION { [1..n -> { 2 * k : k \in (0 - Den)..(2 * Den) }] : n \in 1..MaxPixels }

\* img.min()
ImgMin(im) == CHOOSE m \in { im[i] : i \in 1..Len(im) } : \A i \in 1..Len(im) : m <= im[i]

\* (img * 0.5) + 0.5 on one sample
Remap(n) == (n \div 2) + (Unit \div 2)

\* np.clip(x, 0.0, 1.0) on one sample
Clip(n) == IF n < 0 THEN 0 ELSE IF n > Unit THEN Unit ELSE n

\* Mutant of ScaleTo16: the product rounded to nearest before the cast.
ScaleTo16_Rounds(n) == ((2 * n * U16_SCALE + Unit) \div (2 * Unit)) % 65536

\* (x * 65535.0).astype(np.uint16) on one sample: the cast drops the
\* fraction and keeps 16 bits.
ScaleTo16(n) ==
    LET prod == n * U16_SCALE
        trunc == IF prod >= 0 THEN prod \div Unit ELSE 0 - ((0 - prod) \div Unit)
    IN  trunc % 65536

QuantInit ==
    /\ TexIdle
    /\ SmartIdle
    /\ RepairIdle
    /\ qpc = "read"
    /\ img \in Images
    /\ pre = <<>>
    /\ shifted = FALSE
    /\ img_16bit = <<>>

\* img_min = float(img.min()); if img_min < 0.0: img = (img * 0.5) + 0.5
RemapIfSigned ==
    /\ qpc = "read"
    /\ shifted' = (ImgMin(img) < 0)
    /\ img' = IF ImgMin(img) < 0 THEN [i \in 1..Len(img) |-> Remap(img[i])] ELSE img
    /\ pre' = img'
    /\ qpc' = "remapped"
    /\ UNCHANGED img_16bit
    /\ UNCHANGED offQuant

\* img = np.clip(img, 0.0, 1.0)
ClipImage ==
    /\ qpc = "remapped"
    /\ img' = [i \in 1..Len(img) |-> Clip(img[i])]
    /\ qpc' = "clipped"
    /\ UNCHANGED << pre, shifted, img_16bit >>
    /\ UNCHANGED offQuant

\* img_16bit = (img * 65535.0).astype(np.uint16)
Quantize ==
    /\ qpc = "clipped"
    /\ img_16bit' = [i \in 1..Len(img) |-> ScaleTo16(img[i])]
    /\ qpc' = "quantized"
    /\ UNCHANGED << img, pre, shifted >>
    /\ UNCHANGED offQuant

QuantNext == RemapIfSigned \/ ClipImage \/ Quantize

SpecQuant == QuantInit /\ [][QuantNext]_vars

\* clamp(x, 0, 1) of the claim, on a numerator
Clamp01(n) == IF n < 0 THEN 0 ELSE IF n > Unit THEN Unit ELSE n

\* C6 as stated: every 16-bit value written lies in [0, 65535] and is
\* round(clamp(x, 0, 1) * 65535), x the sample after the optional remap:
\* an integer at distance at most 1/2 from the product.
C6_AsStated ==
    qpc = "quantized" =>
        \A i \in 1..Len(pre) :
            LET prod == Clamp01(pre[i]) * 65535
                d == img_16bit[i] * Unit - prod
            IN  /\ img_16bit[i] \in 0..65535
                /\ 2 * d <= Unit
                /\ 2 * d >= 0 - Unit

\* C6 amended: every 16-bit value written lies in [0, 65535] and is
\* clamp(x, 0, 1) * 65535 with its fraction dropped (the floor of the
\* product), x the sample after the optional remap.
C6_Truncates ==
    qpc = "quantized" =>
        /\ Len(img_16bit) = Len(pre)
        /\ \A i \in 1..Len(pre) :
            LET prod == Clamp01(pre[i]) * 65535
            IN  /\ img_16bit[i] \in 0..65535
                /\ img_16bit[i] * Unit <= prod
                /\ prod < (img_16bit[i] + 1) * Unit

\* A remapped image was quantized and one product had a fraction above 1/2.
C6_Witness ==
    /\ qpc = "quantized"
    /\ shifted
    /\ \E i \in 1..Len(pre) :
          2 * (Clamp01(pre[i]) * 65535 - img_16bit[i] * Unit) > Unit
\* ============================================================ model graphs
\* The paths the model scripts name.
input_path == "models/dreamer/onnx/sdxl_turbo_unet_768x768.onnx"
output_path == "models/dreamer/onnx/sdxl_turbo_unet_768x768_fp16.onnx"
data_location == "sdxl_turbo_unet_768x768_fp16.onnx.data"

ModelPaths == {input_path, output_path, data_location}

\* An output descriptor: a name and an element type.
Descriptors == [name : {"sample", "aux"}, elem_type : {"FLOAT", "FLOAT16"}]

OutputLists == UNION { [1..n -> Descriptors] : n \in 0..MaxOutputs }

NoFile == [kind |-> "absent"]

\* A file written before the script started.
PriorFile == [kind |-> "prior"]

\* The side-car tensor data written with graph g.
DataFile(g) == [kind |-> "data", graph |-> g]

ModelFile(g) == [kind |-> "model", graph |-> g]

\* ========================================================= smart_convert.py
SmartGraphs == [output : OutputLists]

SmartInit ==
    /\ TexIdle
    /\ QuantIdle
    /\ RepairIdle
    /\ spc = "start"
    /\ model = [output |-> <<>>]
    /\ model_fp16 = [output |-> <<>>]
    /\ \E g \in SmartGraphs, o, d \in {NoFile, PriorFile} :
          sdisk = [p \in ModelPaths |->
                      IF p = input_path THEN ModelFile(g)
                      ELSE IF p = output_path THEN o ELSE d]
    /\ sdisk0 = sdisk

\* model = onnx.load(input_path)
SmartLoad ==
    /\ spc = "start"
    /\ model' = sdisk[input_path].graph
    /\ spc' = "loaded"
    /\ UNCHANGED << model_fp16, sdisk, sdisk0 >>
    /\ UNCHANGED offSmart

\* if len(model.graph.output) == 0: raise ValueError
SmartNoOutputs ==
    /\ spc = "loaded"
    /\ Len(model.output) = 0
    /\ spc' = "raised"
    /\ UNCHANGED << model, model_fp16, sdisk, sdisk0 >>
    /\ UNCHANGED offSmart

\* model_fp16 = float16.convert_float_to_float16(model, keep_io_types=True):
\* the converter is a library call, and returns any graph.
SmartConvert ==
    /\ spc = "loaded"
    /\ Len(model.output) # 0
    /\ model_fp16' \in SmartGraphs
    /\ spc' = "converted"
    /\ UNCHANGED << model, sdisk, sdisk0 >>
    /\ UNCHANGED offSmart

\* Mutant of SmartWiped: the check made after the save.
SmartWiped_AfterSave ==
    /\ spc = "converted"
    /\ Len(model_fp16.output) = 0
    /\ sdisk' = [sdisk EXCEPT ![data_location] = DataFile(model_fp16),
                              ![output_path] = ModelFile(model_fp16)]
    /\ spc' = "raised"
    /\ UNCHANGED << model, model_fp16, sdisk0 >>
    /\ UNCHANGED offSmart

\* if len(model_fp16.graph.output) == 0: raise ValueError
SmartWiped ==
    /\ spc = "converted"
    /\ Len(model_fp16.output) = 0
    /\ spc' = "raised"
    /\ UNCHANGED << model, model_fp16, sdisk, sdisk0 >>
    /\ UNCHANGED offSmart

\* onnx.save_model(..., save_as_external_data=True, location=...): the
\* side-car data file is written first,
SmartSaveData ==
    /\ spc = "converted"
    /\ Len(model_fp16.output) # 0
    /\ sdisk' = [sdisk EXCEPT ![data_location] = DataFile(model_fp16)]
    /\ spc' = "saving"
    /\ UNCHANGED << model, model_fp16, sdisk0 >>
    /\ UNCHANGED offSmart

\* then the graph itself.
SmartSaveModel ==
    /\ spc = "saving"
    /\ sdisk' = [sdisk EXCEPT ![output_path] = ModelFile(model_fp16)]
    /\ spc' = "done"
    /\ UNCHANGED << model, model_fp16, sdisk0 >>
    /\ UNCHANGED offSmart

SmartNext ==
    \/ SmartLoad
    \/ SmartNoOutputs
    \/ SmartConvert
    \/ SmartWiped
    \/ SmartSaveData
    \/ SmartSaveModel

SpecSmart == SmartInit /\ [][SmartNext]_vars

\* C3 as stated: whenever the source graph has N > 0 outputs and a result is
\* written, the saved graph has exactly N outputs, each with the element
\* type of the source's, whatever the converter returned.
C3_AsStated ==
    spc = "done" =>
        LET src == sdisk0[input_path].graph.output
            saved == sdisk[output_path].graph.output
        IN  Len(src) > 0 =>
                /\ Len(saved) = Len(src)
                /\ \A i \in 1..Len(src) : saved[i].elem_type = src[i].elem_type

\* C4: when the source graph or the converted graph has no outputs the script
\* ends in the error and never reaches the save: the output model file and
\* its side-car data file are as they were before the run; and no run
\* reaches the save with either list empty.
C4_AbortBeforeSave ==
    /\ spc = "raised" => sdisk = sdisk0
    /\ spc \in {"start", "loaded", "converted"} => sdisk = sdisk0
    /\ spc \in {"converted", "saving", "done"} => Len(model.output) > 0
    /\ spc \in {"saving", "done"} => Len(model_fp16.output) > 0
    /\ spc \in {"loaded", "converted", "saving", "done", "raised"} =>
          (Len(model.output) = 0 => spc \in {"loaded", "raised"})

\* The converter wiped the outputs and the script raised, with files of an
\* earlier run still in place.
C4_Witness ==
    /\ spc = "raised"
    /\ Len(model.output) > 0
    /\ model_fp16.output = <<>>
    /\ sdisk[output_path] = PriorFile
    /\ sdisk[data_location] = PriorFile

\* =================== repair_and_convert.py and transplant_metadata.py
input_orig == input_path
input_fp16 == output_path

OrigGraphs == [opset_import : {<<>>, <<17>>}, ir_version : {8}, output : OutputLists]

HalfGraphs == [opset_import : {<<>>, <<11>>}, ir_version : {7}, output : OutputLists]

NoGraph == [opset_import |-> <<>>, ir_version |-> 0, output |-> <<>>]

\* FLOAT descriptors down-cast in place.
DownCast(outs) ==
    [i \in 1..Len(outs) |->
        [outs[i] EXCEPT !.elem_type = "FLOAT16"]]

\* Mutant of Grafted: the emptiness test dropped.
Grafted_Unconditional(fp16_out, orig_out) == fp16_out \o orig_out

\* if len(model_fp16.graph.output) == 0:
\*     model_fp16.graph.output.extend(<the original's outputs>)
Grafted(fp16_out, orig_out) ==
    IF Len(fp16_out) = 0 THEN fp16_out \o orig_out ELSE fp16_out

RepairInit ==
    /\ TexIdle
    /\ QuantIdle
    /\ SmartIdle
    /\ script \in {"repair_and_convert", "transplant_metadata"}
    /\ rpc = "start"
    /\ orig = NoGraph
    /\ original_outputs = <<>>
    /\ half = NoGraph
    /\ rmodel_fp16 = NoGraph
    /\ \E g \in OrigGraphs, h \in HalfGraphs, f \in {NoFile, PriorFile} :
          rdisk = [p \in ModelPaths |->
                      IF p = input_orig THEN ModelFile(g)
                      ELSE IF script = "repair_and_convert" THEN f
                      ELSE IF p = input_fp16 THEN ModelFile(h)
                      ELSE DataFile(h)]

\* repair_and_convert: model = onnx.load(input_path);
\* original_outputs = list(model.graph.output)
RepairLoad ==
    /\ script = "repair_and_convert"
    /\ rpc = "start"
    /\ orig' = rdisk[input_orig].graph
    /\ original_outputs' = rdisk[input_orig].graph.output
    /\ rpc' = "loaded"
    /\ UNCHANGED << script, half, rmodel_fp16, rdisk >>
    /\ UNCHANGED offRepair

\* model_fp16 = float16.convert_float_to_float16(model): the converter is a
\* library call and returns any graph; the captured descriptors are objects
\* of the graph it was given, and it may have down-cast them in place.
RepairConvert ==
    /\ script = "repair_and_convert"
    /\ rpc = "loaded"
    /\ \E h \in HalfGraphs :
          /\ half' = h
          /\ rmodel_fp16' = h
    /\ \E inplace \in BOOLEAN :
          original_outputs' =
              IF inplace THEN DownCast(original_outputs) ELSE original_outputs
    /\ rpc' = "converted"
    /\ UNCHANGED << script, orig, rdisk >>
    /\ UNCHANGED offRepair

\* Step 3, the surgical re-attachment.
RepairGraft ==
    /\ script = "repair_and_convert"
    /\ rpc = "converted"
    /\ rmodel_fp16' =
          [rmodel_fp16 EXCEPT !.output = Grafted(rmodel_fp16.output, original_outputs)]
    /\ rpc' = "grafted"
    /\ UNCHANGED << script, orig, original_outputs, half, rdisk >>
    /\ UNCHANGED offRepair

\* transplant_metadata: both models are loaded, then the original's opset
\* version is printed.
TransplantLoad ==
    /\ script = "transplant_metadata"
    /\ rpc = "start"
    /\ orig' = rdisk[input_orig].graph
    /\ half' = rdisk[input_fp16].graph
    /\ rmodel_fp16' = rdisk[input_fp16].graph
    /\ rpc' = IF Len(rdisk[input_orig].graph.opset_import) = 0
              THEN "raised"
              ELSE "loaded"
    /\ UNCHANGED << script, original_outputs, rdisk >>
    /\ UNCHANGED offRepair

\* Step 2, the metadata transplant: opset list, IR version, outputs.
TransplantMetadata ==
    /\ script = "transplant_metadata"
    /\ rpc = "loaded"
    /\ rmodel_fp16' =
          [ opset_import |-> orig.opset_import,
            ir_version |-> orig.ir_version,
            output |-> Grafted(rmodel_fp16.output, orig.output) ]
    /\ rpc' = "grafted"
    /\ UNCHANGED << script, orig, original_outputs, half, rdisk >>
    /\ UNCHANGED offRepair

\* onnx.save_model(model_fp16, <half-precision path>, ...), in both scripts.
SaveRepaired ==
    /\ rpc = "grafted"
    /\ rdisk' = [rdisk EXCEPT ![data_location] = DataFile(rmodel_fp16),
                              ![input_fp16] = ModelFile(rmodel_fp16)]
    /\ rpc' = "done"
    /\ UNCHANGED << script, orig, original_outputs, half, rmodel_fp16 >>
    /\ UNCHANGED offRepair

RepairNext ==
    \/ RepairLoad
    \/ RepairConvert
    \/ RepairGraft
    \/ TransplantLoad
    \/ TransplantMetadata
    \/ SaveRepaired

SpecRepair == RepairInit /\ [][RepairNext]_vars

NamesOf(outs) == [i \in 1..Len(outs) |-> outs[i].name]

\* C5: when the half-precision graph's output list is empty after the
\* transformation, the saved output list is the original graph's (same
\* names, same order, same count); otherwise it is saved unchanged; so the
\* saved graph has an output whenever the original has one.
C5_GraftWhenEmpty ==
    rpc = "done" =>
        LET saved == rdisk[input_fp16].graph.output
            original == rdisk[input_orig].graph.output
        IN  /\ half.output = <<>> => NamesOf(saved) = NamesOf(original)
            /\ half.output # <<>> => saved = half.output
            /\ Len(original) >= 1 => Len(saved) >= 1
            /\ script = "transplant_metadata" =>
                  (half.output = <<>> => saved = original)

\* repair_and_convert saved a graph whose two outputs were grafted back.
C5_Witness ==
    /\ rpc = "done"
    /\ script = "repair_and_convert"
    /\ half.output = <<>>
    /\ Len(rdisk[input_fp16].graph.output) = 2
    /\ NamesOf(rdisk[input_fp16].graph.output) = <<"sample", "aux">>
====
